---- MODULE Spec2Model ----
(***************************************************************************)
(* A model of src/main.py (TechNewsBot): feed fetching with the recency   *)
(* filter, the sort and truncation of the collected items, the keyword    *)
(* classifier, the report assembler with its fallback renderer, and the   *)
(* control flow of main (persist, note upload, mail).                     *)
(*                                                                        *)
(* Text is a string, taken apart with Len and SubSeq; an ISO 8601         *)
(* timestamp string is the sequence of its character codes, compared the  *)
(* way Python compares str values (lexicographically by code point).      *)
(***************************************************************************)
EXTENDS Integers, Sequences, FiniteSets, TLC

VARIABLES
    pc,                \* where main is
    env,               \* which environment variables are set
    now,               \* datetime.now() as read on line 44
    clock,             \* datetime.now() as read on line 61, not before now
    hours_back,        \* the argument of fetch_recent_news
    feeds,             \* what feedparser.parse gives for each source
    all_news,          \* all_news as collected, before the sort of line 83
    news_items,        \* what fetch_recent_news returns
    categorized_news,  \* what categorize_news returns
    report,            \* what generate_report returns
    file,              \* what save_report wrote
    events,            \* the external operations begun so far, in order
    hackmd_url,        \* what create_hackmd_note returns
    mail,              \* the call of send_email_with_link and the body it built
    success,           \* what send_email_with_link returns
    log                \* the outcome messages printed

vars == <<pc, env, now, clock, hours_back, feeds, all_news, news_items,
          categorized_news, report, file, events, hackmd_url, mail, success, log>>

\* An optional value: <<>> when there is none (the attribute is absent or None,
\* or the call raised), <<x>> when it is x.
Nothing == <<>>
Some(x) == <<x>>
IsSome(o) == o # <<>>
Val(o) == o[1]

Min(a, b) == IF a <= b THEN a ELSE b

\* s[:n] for a sequence s and n >= 0
Take(s, n) == SubSeq(s, 1, Min(n, Len(s)))

RECURSIVE ConcatFrom(_, _)
ConcatFrom(ss, i) == IF i > Len(ss) THEN <<>> ELSE ss[i] \o ConcatFrom(ss, i + 1)

\* the concatenation of a sequence of sequences
Concat(ss) == ConcatFrom(ss, 1)

\* all sequences over S of length at most n
SeqsUpTo(S, n) == UNION {[1..k -> S] : k \in 0..n}

(***************************************************************************)
(* datetime                                                               *)
(***************************************************************************)
DateTime(y, mo, d, h, mi, s, us) ==
    [year |-> y, month |-> mo, day |-> d, hour |-> h, minute |-> mi,
     second |-> s, microsecond |-> us]

IsLeap(y) == (y % 4 = 0) /\ ((y % 100 # 0) \/ (y % 400 = 0))

DaysInMonth(y, mo) ==
    IF mo = 2 THEN (IF IsLeap(y) THEN 29 ELSE 28)
    ELSE IF mo \in {4, 6, 9, 11} THEN 30 ELSE 31

\* datetime(*t[:6]) raises ValueError unless every field is in range
ValidFields(t) ==
    /\ t[1] \in 1..9999
    /\ t[2] \in 1..12
    /\ t[3] \in 1..DaysInMonth(t[1], t[2])
    /\ t[4] \in 0..23
    /\ t[5] \in 0..59
    /\ t[6] \in 0..59

\* datetime(*t[:6]) for a time.struct_time t: the first six fields, microsecond
\* 0; Nothing when the constructor raises
FromStructTime(t) ==
    IF ValidFields(t) THEN Some(DateTime(t[1], t[2], t[3], t[4], t[5], t[6], 0))
    ELSE Nothing

DtTuple(d) == <<d.year, d.month, d.day, d.hour, d.minute, d.second, d.microsecond>>

RECURSIVE LexLessFrom(_, _, _)
LexLessFrom(a, b, i) ==
    IF i > Len(b) THEN FALSE
    ELSE IF i > Len(a) THEN TRUE
    ELSE IF a[i] # b[i] THEN a[i] < b[i]
    ELSE LexLessFrom(a, b, i + 1)

\* a < b for sequences of integers, compared element by element, a proper
\* prefix being smaller
LexLess(a, b) == LexLessFrom(a, b, 1)

\* datetime.__lt__ and datetime.__ge__ of naive datetimes
DtLess(a, b) == LexLess(DtTuple(a), DtTuple(b))
DtGe(a, b) == ~DtLess(a, b)

\* d - timedelta(hours=h), for results that stay within d's month
SubHours(d, h) ==
    LET total == ((d.day - 1) * 24 + d.hour) - h
    IN  [d EXCEPT !.day = (total \div 24) + 1, !.hour = total % 24]

Cutoff(now_, hours_back_) == SubHours(now_, hours_back_)

RECURSIVE Digits(_, _)
\* n written in decimal with leading zeros to width w, as character codes
Digits(n, w) == IF w = 0 THEN <<>> ELSE Digits(n \div 10, w - 1) \o <<48 + (n % 10)>>

\* datetime.isoformat(): YYYY-MM-DDTHH:MM:SS, then .ffffff when microsecond # 0
isoformat(d) ==
    Digits(d.year, 4) \o <<45>> \o Digits(d.month, 2) \o <<45>> \o Digits(d.day, 2)
    \o <<84>> \o Digits(d.hour, 2) \o <<58>> \o Digits(d.minute, 2) \o <<58>>
    \o Digits(d.second, 2)
    \o (IF d.microsecond # 0 THEN <<46>> \o Digits(d.microsecond, 6) ELSE <<>>)

(***************************************************************************)
(* fetch_recent_news                                                      *)
(***************************************************************************)
news_sources ==
    <<"TechCrunch", "The Verge", "Ars Technica", "Wired",
      "MIT Technology Review", "Hacker News", "IEEE Spectrum">>

SummaryLimit == 300
MaxNews == 50

\* A feed entry: published_parsed and updated_parsed are optional struct_times
\* (absent and None are both Nothing: line 56 and 58 treat them alike), title,
\* link and summary are optional texts (Nothing when the entry lacks the field).
Entry(p, u, t, l, s) ==
    [published_parsed |-> p, updated_parsed |-> u, title |-> t, link |-> l,
     summary |-> s]

\* lines 56-61: published, else updated, else the clock at that moment;
\* Nothing when datetime(...) raises
ResolveDate(entry, clock_) ==
    IF IsSome(entry.published_parsed) THEN FromStructTime(Val(entry.published_parsed))
    ELSE IF IsSome(entry.updated_parsed) THEN FromStructTime(Val(entry.updated_parsed))
    ELSE Some(clock_)

\* Accepts with the boundary left out
AcceptsAfterCutoffOnly(pub_date, cutoff_time) == DtLess(cutoff_time, pub_date)

\* the time filter of line 63
Accepts(pub_date, cutoff_time) == DtGe(pub_date, cutoff_time)

\* lines 64-70: the item built from an entry; Nothing when entry.title or
\* entry.link raises AttributeError
BuildItem(entry, pub_date, source_name) ==
    IF ~IsSome(entry.title) \/ ~IsSome(entry.link) THEN Nothing
    ELSE Some([title |-> Val(entry.title),
               link |-> Val(entry.link),
               summary |-> Take(IF IsSome(entry.summary) THEN Val(entry.summary)
                                ELSE Val(entry.title), SummaryLimit),
               published |-> isoformat(pub_date),
               source |-> source_name])

\* lines 54-74: the items one entry adds to all_news (none or one); an
\* exception anywhere in the body skips the entry alone
ProcessEntry(entry, source_name, cutoff_time, clock_) ==
    LET pub_date == ResolveDate(entry, clock_)
    IN  IF ~IsSome(pub_date) THEN <<>>
        ELSE IF ~Accepts(Val(pub_date), cutoff_time) THEN <<>>
        ELSE BuildItem(entry, Val(pub_date), source_name)

\* whether the body of the loop raises for the entry
EntryRaises(entry, source_name, cutoff_time, clock_) ==
    LET pub_date == ResolveDate(entry, clock_)
    IN  \/ ~IsSome(pub_date)
        \/ /\ Accepts(Val(pub_date), cutoff_time)
           /\ ~IsSome(BuildItem(entry, Val(pub_date), source_name))

\* ProcessEntries with the try around the loop: the first entry that raises
\* ends the source
ProcessEntriesUntilError(entries, source_name, cutoff_time, clock_) ==
    LET bad == {k \in 1..Len(entries) :
                   EntryRaises(entries[k], source_name, cutoff_time, clock_)}
        stop == IF bad = {} THEN Len(entries) + 1
                ELSE CHOOSE k \in bad : \A m \in bad : k <= m
    IN  Concat([k \in 1..(stop - 1) |->
                   ProcessEntry(entries[k], source_name, cutoff_time, clock_)])

\* lines 53-74: the loop over feed.entries
ProcessEntries(entries, source_name, cutoff_time, clock_) ==
    Concat([k \in 1..Len(entries) |->
                ProcessEntry(entries[k], source_name, cutoff_time, clock_)])

\* What feedparser.parse(url) did: raised, or returned a feed with its entries
FeedRaised == [raised |-> TRUE, entries |-> <<>>]
Feed(entries) == [raised |-> FALSE, entries |-> entries]

\* lines 48-80: one source; feedparser.parse raising leaves all_news as it was
ProcessSource(feed, source_name, cutoff_time, clock_) ==
    IF feed.raised THEN <<>>
    ELSE ProcessEntries(feed.entries, source_name, cutoff_time, clock_)

\* lines 47-80: the loop over news_sources
Collect(feeds_, cutoff_time, clock_) ==
    Concat([i \in 1..Len(news_sources) |->
                ProcessSource(feeds_[i], news_sources[i], cutoff_time, clock_)])

\* the published strings of the elements of s
Keys(s) == {s[i].published : i \in 1..Len(s)}

\* whether key k1 sorts before key k2: with reverse=True, when k1 is larger
Before(k1, k2) == LexLess(k2, k1)

RECURSIVE KeyOrder(_)
\* the keys of K in the order the sort puts them
KeyOrder(K) ==
    IF K = {} THEN <<>>
    ELSE LET first == CHOOSE k \in K : \A j \in K \ {k} : Before(k, j)
         IN  <<first>> \o KeyOrder(K \ {first})

\* the elements of s with key k, in their order in s
WithKey(s, k) == SelectSeq(s, LAMBDA x : x.published = k)

RECURSIVE Reversed(_)
Reversed(s) == IF s = <<>> THEN <<>> ELSE Reversed(Tail(s)) \o <<Head(s)>>

\* SortByPublishedDesc as an ascending sort followed by reverse(): equal keys
\* come out in the opposite order
SortAscendingThenReverse(s) ==
    LET order == KeyOrder(Keys(s))
    IN  Concat([i \in 1..Len(order) |-> Reversed(WithKey(s, order[i]))])

\* line 83: list.sort(key=published, reverse=True). The sort is stable, and
\* reverse=True keeps it so: the result holds, for each key from the largest
\* to the smallest, the elements with that key in their order in s.
SortByPublishedDesc(s) ==
    LET order == KeyOrder(Keys(s))
    IN  Concat([i \in 1..Len(order) |-> WithKey(s, order[i])])

\* lines 83-84
SortAndTruncate(s) == Take(SortByPublishedDesc(s), MaxNews)

\* The titles and summaries of the news the classifier is given below
Titles ==
    {"New GPT model released", "Data breach hits firm", "Generic roundup",
     "AI security", "Cloud security", "Security breach at AI lab", "Samsung said",
     "PYTHON API", "Startup funding for research", "", "OpenAI", "Study: iPhone"}

Summaries ==
    {"cloud", "Hack", "research paper", "no match here", "kubernetes docker aws",
     "apple", "venture", "AI"}

\* the pairs of a title and a summary of those news: a news without a summary
\* gets its title for one (line 67)
KnownTexts ==
    {<<t, s>> : t \in Titles, s \in Summaries} \cup {<<t, t>> : t \in Titles}

(***************************************************************************)
(* categorize_news                                                        *)
(***************************************************************************)
\* lines 91-100, in declaration order. The labels stand for the source's:
\* AI_ML "人工智慧與機器學習", Security "資訊安全", Cloud "雲端與基礎設施",
\* SoftwareDev "軟體開發", Startup "新創與投資", Consumer "消費性科技",
\* Science "科學研究", Other "其他科技新聞".
categories ==
    <<"AI_ML", "Security", "Cloud", "SoftwareDev", "Startup", "Consumer",
      "Science", "Other">>

DefaultCategory == "Other"

\* lines 103-133, in declaration order
keywords_map ==
    <<[category |-> "AI_ML",
       keywords |-> <<"ai", "artificial intelligence", "machine learning", "neural",
                      "gpt", "claude", "openai", "deepmind", "llm", "chatbot",
                      "transformer", "deep learning", "computer vision",
                      "natural language">>],
      [category |-> "Security",
       keywords |-> <<"security", "breach", "hack", "vulnerability", "cyber",
                      "malware", "encryption", "privacy", "ransomware", "phishing",
                      "zero-day", "exploit">>],
      [category |-> "Cloud",
       keywords |-> <<"cloud", "aws", "azure", "gcp", "docker", "kubernetes",
                      "serverless", "microservices", "devops", "infrastructure">>],
      [category |-> "SoftwareDev",
       keywords |-> <<"programming", "developer", "code", "github", "open source",
                      "framework", "api", "software", "javascript", "python",
                      "react", "node">>],
      [category |-> "Startup",
       keywords |-> <<"startup", "funding", "investment", "ipo", "acquisition",
                      "venture", "business", "unicorn", "valuation">>],
      [category |-> "Consumer",
       keywords |-> <<"iphone", "android", "smartphone", "tablet", "wearable",
                      "consumer", "apple", "samsung", "google pixel">>],
      [category |-> "Science",
       keywords |-> <<"research", "study", "paper", "university", "breakthrough",
                      "discovery", "journal", "peer review">>]>>

CategoryCap == 8

UpperCase == "ABCDEFGHIJKLMNOPQRSTUVWXYZ"
LowerCase == "abcdefghijklmnopqrstuvwxyz"

\* str.lower() of one character
LowerChar(c) ==
    IF \E i \in 1..Len(UpperCase) : SubSeq(UpperCase, i, i) = c
    THEN LET i == CHOOSE i \in 1..Len(UpperCase) : SubSeq(UpperCase, i, i) = c
         IN  SubSeq(LowerCase, i, i)
    ELSE c

RECURSIVE LowerFrom(_, _)
LowerFrom(text, i) ==
    IF i > Len(text) THEN ""
    ELSE LowerChar(SubSeq(text, i, i)) \o LowerFrom(text, i + 1)

\* str.lower()
Lower(text) == LowerFrom(text, 1)

\* keyword in text: keyword occurs as a substring of text
Contains(text, keyword) ==
    \E i \in 1..(Len(text) - Len(keyword) + 1) :
        SubSeq(text, i, i + Len(keyword) - 1) = keyword

\* line 136
SearchText(item) == Lower(item.title \o " " \o item.summary)

RECURSIVE CountHits(_, _, _)
CountHits(keywords, text, i) ==
    IF i > Len(keywords) THEN 0
    ELSE (IF Contains(text, keywords[i]) THEN 1 ELSE 0) + CountHits(keywords, text, i + 1)

\* line 142: sum(1 for keyword in keywords if keyword in text)
Score(keywords, text) == CountHits(keywords, text, 1)

RECURSIVE ScoresFrom(_, _)
\* lines 140-144: category_scores, the categories with score > 0 in declaration
\* order, each with its score
ScoresFrom(text, i) ==
    IF i > Len(keywords_map) THEN <<>>
    ELSE LET score == Score(keywords_map[i].keywords, text)
         IN  (IF score > 0 THEN <<[category |-> keywords_map[i].category,
                                   score |-> score]>>
              ELSE <<>>) \o ScoresFrom(text, i + 1)

CategoryScores(text) == ScoresFrom(text, 1)

\* Better with ties going to the later element
BetterOrEqual(next, best) == next.score >= best.score

\* whether max() replaces the best element so far by the next one
Better(next, best) == next.score > best.score

RECURSIVE MaxFrom(_, _, _)
MaxFrom(best, scores, i) ==
    IF i > Len(scores) THEN best
    ELSE MaxFrom(IF Better(scores[i], best) THEN scores[i] ELSE best, scores, i + 1)

\* line 148: max(category_scores, key=category_scores.get), the first of the
\* entries with the largest score
MaxByScore(scores) == MaxFrom(scores[1], scores, 2).category

\* lines 136-153: the category one item is appended to
BestCategory(item) ==
    LET category_scores == CategoryScores(SearchText(item))
    IN  IF category_scores # <<>> THEN MaxByScore(category_scores)
        ELSE DefaultCategory

\* BestCategory of the titles and summaries the inputs below are made of,
\* computed once: Assigned(item) is BestCategory(item)
BestCategoryMemo ==
    [ts \in KnownTexts |-> BestCategory([title |-> ts[1], summary |-> ts[2]])]

Assigned(item) ==
    IF <<item.title, item.summary>> \in KnownTexts
    THEN BestCategoryMemo[<<item.title, item.summary>>]
    ELSE BestCategory(item)

RECURSIVE AssignFrom(_, _, _)
\* lines 135-153: the loop over news_items; cats maps each label to its list
AssignFrom(cats, items, i) ==
    IF i > Len(items) THEN cats
    ELSE LET c == Assigned(items[i])
         IN  AssignFrom([cats EXCEPT ![c] = Append(@, items[i])], items, i + 1)

EmptyCategories == [c \in {categories[i] : i \in 1..Len(categories)} |-> <<>>]

\* Capped keeping the last 8 instead of the first
CappedFromEnd(news_list) ==
    SubSeq(news_list, Len(news_list) - Min(CategoryCap, Len(news_list)) + 1,
           Len(news_list))

\* line 160
Capped(news_list) == Take(news_list, CategoryCap)

RECURSIVE FilterKeepingEmpty(_, _)
\* FilterFrom without the test of line 158
FilterKeepingEmpty(cats, i) ==
    IF i > Len(categories) THEN <<>>
    ELSE <<[category |-> categories[i], news_list |-> Capped(cats[categories[i]])]>>
         \o FilterKeepingEmpty(cats, i + 1)

RECURSIVE FilterFrom(_, _)
\* lines 156-160: filtered_categories, an ordered mapping kept as the sequence
\* of its (category, news_list) entries in insertion order
FilterFrom(cats, i) ==
    IF i > Len(categories) THEN <<>>
    ELSE (IF cats[categories[i]] # <<>>
          THEN <<[category |-> categories[i],
                  news_list |-> Capped(cats[categories[i]])]>>
          ELSE <<>>) \o FilterFrom(cats, i + 1)

\* lines 89-162
CategorizeNews(items) == FilterFrom(AssignFrom(EmptyCategories, items, 1), 1)

(***************************************************************************)
(* generate_report, generate_fallback_report                              *)
(***************************************************************************)
FallbackItems == 5
FallbackSummary == 150

\* One line of a report
Line(kind, n, text) == [kind |-> kind, n |-> n, text |-> text]

\* lines 233-236: the four lines of item number i
ItemLines(i, news) ==
    <<Line("h3", i, news.title),
      Line("source", i, news.source),
      Line("link", i, news.link),
      Line("summary", i, Take(news.summary, FallbackSummary) \o "...")>>

\* Listed without the limit
ListedAll(news_list) == news_list

\* line 232: the items of a category the fallback report lists
Listed(news_list) == Take(news_list, FallbackItems)

RECURSIVE ItemsFrom(_, _)
ItemsFrom(news_list, i) ==
    IF i > Len(news_list) THEN <<>>
    ELSE ItemLines(i, news_list[i]) \o ItemsFrom(news_list, i + 1)

\* lines 230-237: the section of one category
Section(entry) ==
    IF entry.news_list # <<>>
    THEN <<Line("h2", 0, entry.category)>> \o ItemsFrom(Listed(entry.news_list), 1)
         \o <<Line("hr", 0, "")>>
    ELSE <<>>

RECURSIVE SectionsFrom(_, _)
SectionsFrom(categorized, i) ==
    IF i > Len(categorized) THEN <<>>
    ELSE Section(categorized[i]) \o SectionsFrom(categorized, i + 1)

\* lines 218-239: the heading (title and time of generation), then the sections
generate_fallback_report(categorized) ==
    <<Line("h1", 0, "title"), Line("time", 0, ""), Line("hr", 0, "")>>
    \o SectionsFrom(categorized, 1)

\* line 213: the text the generative service answered with
GeneratedText == <<Line("generated", 0, "")>>

(***************************************************************************)
(* main and the steps it calls                                            *)
(***************************************************************************)
EnvVars ==
    {"GEMINI_API_KEY", "HACKMD_TOKEN", "FROM_EMAIL", "TO_EMAIL", "SMTP_SERVER",
     "EMAIL_USERNAME", "EMAIL_PASSWORD"}

\* Construct without the test of line 17
ConstructUnchecked ==
    /\ pc = "start"
    /\ pc' = "fetch"
    /\ UNCHANGED <<env, now, clock, hours_back, feeds, all_news, news_items,
                   categorized_news, report, file, events, hackmd_url, mail, success,
                   log>>

\* lines 14-39 and 517: the constructor raises ValueError without the API key,
\* and main re-raises it (lines 550-552)
Construct ==
    /\ pc = "start"
    /\ IF env["GEMINI_API_KEY"]
       THEN pc' = "fetch" /\ log' = log
       ELSE pc' = "failed" /\ log' = log \cup {"config_error"}
    /\ UNCHANGED <<env, now, clock, hours_back, feeds, all_news, news_items,
                   categorized_news, report, file, events, hackmd_url, mail, success>>

\* lines 39 and 550-552: the reports directory cannot be made, and main
\* re-raises
ConstructFails ==
    /\ pc = "start"
    /\ env["GEMINI_API_KEY"]
    /\ pc' = "failed"
    /\ log' = log \cup {"mkdir_error"}
    /\ UNCHANGED <<env, now, clock, hours_back, feeds, all_news, news_items,
                   categorized_news, report, file, events, hackmd_url, mail, success>>

\* lines 41-87: one request per source, the collection, the sort and the cut
FetchRecentNews ==
    /\ pc = "fetch"
    /\ all_news' = Collect(feeds, Cutoff(now, hours_back), clock)
    /\ news_items' = SortAndTruncate(all_news')
    /\ events' = events \o [i \in 1..Len(news_sources) |-> "feed"]
    /\ pc' = "fetched"
    /\ UNCHANGED <<env, now, clock, hours_back, feeds, categorized_news, report, file,
                   hackmd_url, mail, success, log>>

\* lines 521-523
MainNoNews ==
    /\ pc = "fetched"
    /\ news_items = <<>>
    /\ pc' = "done"
    /\ log' = log \cup {"no_news"}
    /\ UNCHANGED <<env, now, clock, hours_back, feeds, all_news, news_items,
                   categorized_news, report, file, events, hackmd_url, mail, success>>

\* line 526
Categorize ==
    /\ pc = "fetched"
    /\ news_items # <<>>
    /\ categorized_news' = CategorizeNews(news_items)
    /\ pc' = "categorized"
    /\ UNCHANGED <<env, now, clock, hours_back, feeds, all_news, news_items, report,
                   file, events, hackmd_url, mail, success, log>>

\* lines 210-213: the generative call answers
GenerateOk ==
    /\ pc = "categorized"
    /\ events' = Append(events, "generate")
    /\ report' = GeneratedText
    /\ pc' = "generated"
    /\ UNCHANGED <<env, now, clock, hours_back, feeds, all_news, news_items,
                   categorized_news, file, hackmd_url, mail, success, log>>

\* lines 214-216: the generative call (or reading response.text) raises
GenerateFails ==
    /\ pc = "categorized"
    /\ events' = Append(events, "generate")
    /\ report' = generate_fallback_report(categorized_news)
    /\ pc' = "generated"
    /\ UNCHANGED <<env, now, clock, hours_back, feeds, all_news, news_items,
                   categorized_news, file, hackmd_url, mail, success, log>>

\* lines 505-510 and 533: the file is written
SaveReport ==
    /\ pc = "generated"
    /\ events' = Append(events, "save")
    /\ file' = Some(report)
    /\ pc' = "saved"
    /\ UNCHANGED <<env, now, clock, hours_back, feeds, all_news, news_items,
                   categorized_news, report, hackmd_url, mail, success, log>>

\* SaveFails with the exception swallowed: main goes on to the deliveries
SaveFailsSilently ==
    /\ pc = "generated"
    /\ events' = Append(events, "save_failed")
    /\ pc' = "saved"
    /\ UNCHANGED <<env, now, clock, hours_back, feeds, all_news, news_items,
                   categorized_news, report, file, hackmd_url, mail, success, log>>

\* lines 508 and 550-552: open or write raises, and main re-raises
SaveFails ==
    /\ pc = "generated"
    /\ events' = Append(events, "save_failed")
    /\ pc' = "failed"
    /\ log' = log \cup {"save_error"}
    /\ UNCHANGED <<env, now, clock, hours_back, feeds, all_news, news_items,
                   categorized_news, report, file, hackmd_url, mail, success>>

NoteUrl == "https://hackmd.io/id"

\* lines 245-247: no token, no request
HackmdSkipped ==
    /\ pc = "saved"
    /\ ~env["HACKMD_TOKEN"]
    /\ hackmd_url' = Nothing
    /\ log' = log \cup {"hackmd_skipped"}
    /\ pc' = "noted"
    /\ UNCHANGED <<env, now, clock, hours_back, feeds, all_news, news_items,
                   categorized_news, report, file, events, mail, success>>

\* lines 263-269: the POST answers 201 with the note's id
HackmdCreated ==
    /\ pc = "saved"
    /\ env["HACKMD_TOKEN"]
    /\ events' = Append(events, "hackmd")
    /\ hackmd_url' = Some(NoteUrl)
    /\ pc' = "noted"
    /\ UNCHANGED <<env, now, clock, hours_back, feeds, all_news, news_items,
                   categorized_news, report, file, mail, success, log>>

\* HackmdFails with the exception let through to main
HackmdFailsRaising ==
    /\ pc = "saved"
    /\ env["HACKMD_TOKEN"]
    /\ events' = Append(events, "hackmd")
    /\ log' = log \cup {"hackmd_error"}
    /\ pc' = "failed"
    /\ UNCHANGED <<env, now, clock, hours_back, feeds, all_news, news_items,
                   categorized_news, report, file, hackmd_url, mail, success>>

\* lines 270-276: another status, or the request or the reading of the answer
\* raises
HackmdFails ==
    /\ pc = "saved"
    /\ env["HACKMD_TOKEN"]
    /\ events' = Append(events, "hackmd")
    /\ hackmd_url' = Nothing
    /\ \E why \in {"hackmd_status", "hackmd_exception"} : log' = log \cup {why}
    /\ pc' = "noted"
    /\ UNCHANGED <<env, now, clock, hours_back, feeds, all_news, news_items,
                   categorized_news, report, file, mail, success>>

\* lines 301-434: the plain-text body, the link when there is one, else the report
EmailContent(url, report_content) ==
    IF IsSome(url) THEN <<Line("note_link", 0, Val(url))>> ELSE report_content

\* the call on line 539, and the body when lines 283-441 built one
MailCall(url, report_content, body) ==
    Some([hackmd_url |-> url, report_content |-> report_content, body |-> body])

\* lines 541-548: what main prints for the outcome of the mail step
MainOutcome(ok, url) ==
    IF ok THEN (IF IsSome(url) THEN {"done_link"} ELSE {"done_html"})
    ELSE {"mail_failed", "warning"}

\* line 288: TO_EMAIL unset makes "',' in to_emails" raise; lines 452-454
SendEmailNoRecipient ==
    /\ pc = "noted"
    /\ ~env["TO_EMAIL"]
    /\ mail' = MailCall(hackmd_url, report, Nothing)
    /\ success' = FALSE
    /\ log' = log \cup MainOutcome(FALSE, hackmd_url)
    /\ pc' = "done"
    /\ UNCHANGED <<env, now, clock, hours_back, feeds, all_news, news_items,
                   categorized_news, report, file, events, hackmd_url>>

\* lines 444-450: the session is opened and the message accepted. Without
\* SMTP_SERVER no connection is made and starttls raises; what the server makes
\* of an unset sender or login is the server's choice.
SendEmailOk ==
    /\ pc = "noted"
    /\ env["TO_EMAIL"]
    /\ env["SMTP_SERVER"]
    /\ mail' = MailCall(hackmd_url, report, Some(EmailContent(hackmd_url, report)))
    /\ events' = Append(events, "smtp")
    /\ success' = TRUE
    /\ log' = log \cup MainOutcome(TRUE, hackmd_url)
    /\ pc' = "done"
    /\ UNCHANGED <<env, now, clock, hours_back, feeds, all_news, news_items,
                   categorized_news, report, file, hackmd_url>>

\* lines 444-454: reading the port, connecting, starttls, login or
\* send_message raises, before or after the connection was begun
SendEmailFails ==
    /\ pc = "noted"
    /\ env["TO_EMAIL"]
    /\ mail' = MailCall(hackmd_url, report, Some(EmailContent(hackmd_url, report)))
    /\ \E begun \in (IF env["SMTP_SERVER"] THEN BOOLEAN ELSE {FALSE}) :
           events' = IF begun THEN Append(events, "smtp") ELSE events
    /\ success' = FALSE
    /\ log' = log \cup MainOutcome(FALSE, hackmd_url)
    /\ pc' = "done"
    /\ UNCHANGED <<env, now, clock, hours_back, feeds, all_news, news_items,
                   categorized_news, report, file, hackmd_url>>

(***************************************************************************)
(* Inputs                                                                 *)
(***************************************************************************)
MaxItems == 9      \* the longest list given to categorize_news
MaxMixed == 3      \* the longest such list that mixes every kind of news
MaxEntries == 2    \* the entries of the feed that is varied
MaxEdge == 1       \* the entries before and after the run of equal entries
MaxFill == 50      \* the longest run of equal entries

AllSet == [v \in EnvVars |-> TRUE]

Digit(d) == SubSeq("0123456789", d + 1, d + 1)

RECURSIVE ToStr(_)
\* str(n) for n >= 0
ToStr(n) == IF n < 10 THEN Digit(n) ELSE ToStr(n \div 10) \o Digit(n % 10)

\* The two readings of the clock on line 44 the inputs use, and the later one
\* of line 61
Nows == {DateTime(2024, 3, 2, 10, 0, 0, 0), DateTime(2024, 3, 2, 10, 0, 0, 250000)}
Later(d) == [d EXCEPT !.second = 7, !.microsecond = 31]

HoursBackChoices == {1, 24}

\* struct_times around the cutoffs and around now, and two no calendar holds
StructTimes ==
    {<<2024, 2, 29, 23, 59, 59>>, <<2024, 3, 1, 9, 59, 59>>, <<2024, 3, 1, 10, 0, 0>>,
     <<2024, 3, 1, 10, 0, 1>>, <<2024, 3, 2, 8, 59, 59>>, <<2024, 3, 2, 9, 0, 0>>,
     <<2024, 3, 2, 10, 0, 0>>, <<2024, 3, 2, 11, 0, 0>>, <<2025, 1, 1, 0, 0, 0>>,
     <<2024, 3, 1, 10, 0, 60>>, <<2023, 2, 29, 12, 0, 0>>}

Fresh == <<2024, 3, 2, 9, 30, 0>>
Stale == <<2024, 2, 28, 9, 30, 0>>

Opt(S) == {Nothing} \cup {Some(x) : x \in S}

NoFeeds == [i \in 1..Len(news_sources) |-> Feed(<<>>)]

Idle ==
    /\ all_news = <<>>
    /\ news_items = <<>>
    /\ categorized_news = <<>>
    /\ report = <<>>
    /\ file = Nothing
    /\ events = <<>>
    /\ hackmd_url = Nothing
    /\ mail = Nothing
    /\ success = FALSE
    /\ log = {}

NextFetch == FetchRecentNews

\* The time filter: one entry in the first feed, every mix of its fields
FilterEntries ==
    {Entry(p, u, t, Some("l"), Nothing) :
        p \in Opt(StructTimes), u \in Opt({Fresh, Stale}), t \in Opt({"t"})}

InitFilter ==
    /\ pc = "fetch"
    /\ env = AllSet
    /\ now \in Nows
    /\ clock \in {now, Later(now)}
    /\ hours_back \in HoursBackChoices
    /\ feeds \in {[NoFeeds EXCEPT ![1] = Feed(<<e>>)] : e \in FilterEntries}
    /\ Idle

SpecFilter == InitFilter /\ [][NextFetch]_vars

\* Failing sources and malformed entries: any set of sources fails, one source's
\* feed is varied, and each other source has one good entry
Good(link) == Entry(Some(Fresh), Nothing, Some("good"), Some(link), Some("s"))
Old(link) == Entry(Some(Stale), Nothing, Some("old"), Some(link), Some("s"))
NoTitle(link) == Entry(Some(Fresh), Nothing, Nothing, Some(link), Some("s"))
BadDate(link) == Entry(Some(<<2024, 3, 2, 9, 30, 60>>), Some(Fresh), Some("bad"),
                       Some(link), Nothing)

EntryOfKind(kind, link) ==
    CASE kind = "good" -> Good(link)
      [] kind = "old" -> Old(link)
      [] kind = "notitle" -> NoTitle(link)
      [] kind = "baddate" -> BadDate(link)

EntryKinds == {"good", "old", "notitle", "baddate"}

\* the feed whose k-th entry is of kind kinds[k] and links to "e<k>"
FeedOfKinds(kinds) ==
    Feed([k \in 1..Len(kinds) |-> EntryOfKind(kinds[k], "e" \o ToStr(k))])

FetchFeeds ==
    {[i \in 1..Len(news_sources) |->
        IF i \in failed THEN FeedRaised
        ELSE IF i = varied THEN FeedOfKinds(kinds)
        ELSE Feed(<<Good("only")>>)] :
     failed \in SUBSET (1..Len(news_sources)),
     varied \in 1..Len(news_sources),
     kinds \in SeqsUpTo(EntryKinds, MaxEntries)}

InitFetch ==
    /\ pc = "fetch"
    /\ env = AllSet
    /\ now = DateTime(2024, 3, 2, 10, 0, 0, 0)
    /\ clock = Later(now)
    /\ hours_back = 24
    /\ feeds \in FetchFeeds
    /\ Idle

SpecFetch == InitFetch /\ [][NextFetch]_vars

\* The sort: one feed holding a few entries, a run of equal entries, and a few
\* more; an entry with no date takes the clock's reading
SortStamps == {Nothing, Some(<<2024, 3, 2, 10, 0, 0>>), Some(<<2024, 3, 1, 23, 59, 59>>)}

FillCounts == {0} \cup ((MaxFill - 2)..MaxFill)

Dated(stamps) ==
    Feed([k \in 1..Len(stamps) |->
            Entry(stamps[k], Nothing, Some("t"), Some("e" \o ToStr(k)), Nothing)])

SortFeeds ==
    {[NoFeeds EXCEPT ![1] = Dated(before \o [k \in 1..n |-> fill] \o after)] :
     before \in SeqsUpTo(SortStamps, MaxEdge),
     after \in SeqsUpTo(SortStamps, MaxEdge),
     fill \in SortStamps,
     n \in FillCounts}

InitSort ==
    /\ pc = "fetch"
    /\ env = AllSet
    /\ now \in Nows
    /\ clock = Later(now)
    /\ hours_back = 24
    /\ feeds \in SortFeeds
    /\ Idle

SpecSort == InitSort /\ [][NextFetch]_vars

\* The classifier: the state after a fetch that collected the given entries
\* from the first source, all published at the same second
News(title, link, summary) == Entry(Some(Fresh), Nothing, Some(title), Some(link), summary)

VariedNews == {News(t, "r", s) : t \in Titles, s \in Opt(Summaries)}

CoreNews ==
    {News("AI security", "a", Some("AI")), News("OpenAI", "d", Nothing),
     News("Data breach hits firm", "b", Nothing), News("Generic roundup", "c", Nothing)}

\* short lists of the four kinds, long lists of at most two kinds, and each
\* varied news alone
CategorizeEntries ==
    (SeqsUpTo(CoreNews, MaxMixed)
     \cup UNION {SeqsUpTo({e1, e2}, MaxItems) : e1, e2 \in CoreNews}
     \cup {<<e>> : e \in VariedNews}) \ {<<>>}

InitCategorize ==
    /\ pc = "fetched"
    /\ env = AllSet
    /\ now = DateTime(2024, 3, 2, 10, 0, 0, 0)
    /\ clock = now
    /\ hours_back = 24
    /\ feeds \in {[NoFeeds EXCEPT ![1] = Feed(entries)] : entries \in CategorizeEntries}
    /\ all_news = Collect(feeds, Cutoff(now, hours_back), clock)
    /\ news_items = SortAndTruncate(all_news)
    /\ events = [i \in 1..Len(news_sources) |-> "feed"]
    /\ categorized_news = <<>>
    /\ report = <<>>
    /\ file = Nothing
    /\ hackmd_url = Nothing
    /\ mail = Nothing
    /\ success = FALSE
    /\ log = {}

NextCategorize == Categorize \/ GenerateOk \/ GenerateFails

SpecCategorize == InitCategorize /\ [][NextCategorize]_vars

\* main: every mix of set and unset environment variables, over a few feeds
MainFeeds ==
    {NoFeeds,
     [NoFeeds EXCEPT ![1] = Feed(<<News("New GPT model released", "a", Nothing)>>)],
     [NoFeeds EXCEPT ![2] = FeedRaised,
                     ![3] = Feed(<<News("Data breach hits firm", "b", Some("Hack")),
                                   News("Generic roundup", "c", Nothing)>>)]}

Init ==
    /\ pc = "start"
    /\ env \in [EnvVars -> BOOLEAN]
    /\ now \in Nows
    /\ clock = now
    /\ hours_back = 24
    /\ feeds \in MainFeeds
    /\ Idle

Next ==
    \/ Construct
    \/ ConstructFails
    \/ FetchRecentNews
    \/ MainNoNews
    \/ Categorize
    \/ GenerateOk
    \/ GenerateFails
    \/ SaveReport
    \/ SaveFails
    \/ HackmdSkipped
    \/ HackmdCreated
    \/ HackmdFails
    \/ SendEmailNoRecipient
    \/ SendEmailOk
    \/ SendEmailFails

Spec == Init /\ [][Next]_vars

(***************************************************************************)
(* Properties of categorize_news and of the fallback report               *)
(* (checked under SpecCategorize)                                         *)
(***************************************************************************)
Categorized == pc \in {"categorized", "generated"}

\* how many elements of seq are v
Count(v, seq) == Cardinality({i \in 1..Len(seq) : seq[i] = v})

RECURSIVE SumLen(_, _)
SumLen(categorized, i) ==
    IF i > Len(categorized) THEN 0
    ELSE Len(categorized[i].news_list) + SumLen(categorized, i + 1)

\* how many times v is in the lists of the returned mapping
CountOut(v) ==
    SumLen([i \in 1..Len(categorized_news) |->
               [news_list |-> SelectSeq(categorized_news[i].news_list,
                                        LAMBDA x : x = v)]], 1)

Inputs == {news_items[i] : i \in 1..Len(news_items)}

\* C1 as stated: every input item is in exactly one list of the returned
\* mapping, as often as it is in the input: none is lost, none duplicated.
C1_NoItemLost ==
    Categorized => \A v \in Inputs : CountOut(v) = Count(v, news_items)

\* the input items categorize_news assigns to category c, in input order
AssignedTo(c) == SelectSeq(news_items, LAMBDA x : Assigned(x) = c)

\* C1, amended: no item is duplicated and each item has one category; the
\* returned list of a category is the first 8 of the input items assigned to it,
\* in input order, so an item is left out exactly when 8 earlier items went to
\* its category; a category is returned when an item is assigned to it.
C1_PartitionUpToCap ==
    Categorized =>
        /\ \A v \in Inputs : CountOut(v) <= Count(v, news_items)
        /\ \A i, j \in 1..Len(categorized_news) :
               /\ i # j => categorized_news[i].category # categorized_news[j].category
               /\ i # j => \A k \in 1..Len(categorized_news[i].news_list) :
                      Count(categorized_news[i].news_list[k],
                            categorized_news[j].news_list) = 0
        /\ \A i \in 1..Len(categorized_news) :
               LET mine == AssignedTo(categorized_news[i].category)
               IN  categorized_news[i].news_list = SubSeq(mine, 1, Min(8, Len(mine)))
        /\ \A k \in 1..Len(news_items) :
               \E i \in 1..Len(categorized_news) :
                   categorized_news[i].category = Assigned(news_items[k])

\* a category was given more than 8 items, and the ninth is not returned
C1_Witness ==
    /\ pc = "categorized"
    /\ \E v \in Inputs : CountOut(v) < Count(v, news_items)

\* C2: the returned mapping has a category only with a non-empty list, and no
\* returned list, the default one included, is longer than 8.
C2_NonEmptyAtMostCap ==
    Categorized =>
        \A i \in 1..Len(categorized_news) :
            /\ categorized_news[i].news_list # <<>>
            /\ Len(categorized_news[i].news_list) <= 8

\* nine items went to the default category, which is returned with 8
C2_Witness ==
    /\ pc = "categorized"
    /\ Len(news_items) = 9
    /\ Len(categorized_news) = 1
    /\ categorized_news[1].category = DefaultCategory
    /\ Len(categorized_news[1].news_list) = 8

\* for each known title and summary, the number of keywords of each category
\* of keywords_map that occur in the lowercased title + " " + summary
HitsIn(text) ==
    [j \in 1..Len(keywords_map) |->
        Cardinality({k \in 1..Len(keywords_map[j].keywords) :
                        Contains(text, keywords_map[j].keywords[k])})]

Hits == [ts \in KnownTexts |-> HitsIn(Lower(ts[1] \o " " \o ts[2]))]

\* category c is the one C3 names for an item with the scores sc
RightCategory(c, sc) ==
    IF \A j \in DOMAIN sc : sc[j] = 0 THEN c = "Other"
    ELSE \E j \in DOMAIN sc :
            /\ keywords_map[j].category = c
            /\ sc[j] > 0
            /\ \A m \in DOMAIN sc : sc[m] <= sc[j]
            /\ \A m \in DOMAIN sc : m < j => sc[m] < sc[j]

\* C3: every item is in the list of the category with the largest score above
\* zero, the first declared of those with that score; in the default one when
\* no category scores above zero.
C3_BestScoreFirstDeclared ==
    Categorized =>
        \A i \in 1..Len(categorized_news) :
            \A k \in 1..Len(categorized_news[i].news_list) :
                LET item == categorized_news[i].news_list[k]
                IN  RightCategory(categorized_news[i].category,
                                  Hits[<<item.title, item.summary>>])

\* an item two categories score equally and highest was assigned
C3_Witness ==
    /\ pc = "categorized"
    /\ \E k \in 1..Len(news_items) :
           LET sc == Hits[<<news_items[k].title, news_items[k].summary>>]
           IN  \E a, b \in DOMAIN sc :
                   /\ a < b
                   /\ sc[a] = sc[b]
                   /\ sc[a] > 0
                   /\ \A m \in DOMAIN sc : sc[m] <= sc[a]
                   /\ categorized_news[1].category = keywords_map[a].category

Fallback == pc = "generated" /\ report[1].kind = "h1"

\* the first n items of categorized_news[i] are what the report lists under the
\* heading of that category on line p: title, source and link of each, in
\* order, and the rule that ends the section behind them
Renders(p, i, n) ==
    /\ p + 4 * n + 1 <= Len(report)
    /\ report[p] = Line("h2", 0, categorized_news[i].category)
    /\ \A k \in 1..n :
           LET news == categorized_news[i].news_list[k]
           IN  /\ report[p + 4 * (k - 1) + 1] = Line("h3", k, news.title)
               /\ report[p + 4 * (k - 1) + 2] = Line("source", k, news.source)
               /\ report[p + 4 * (k - 1) + 3] = Line("link", k, news.link)
    /\ report[p + 4 * n + 1] = Line("hr", 0, "")

\* C7 as stated: after the generative call raised, the report has a section for
\* every category of the input, with every item of the input in it.
C7_EveryItemRendered ==
    Fallback =>
        \A i \in 1..Len(categorized_news) :
            \E p \in 1..Len(report) :
                Renders(p, i, Len(categorized_news[i].news_list))

\* C7, amended: after the generative call raised, generate_report returns the
\* fallback report, which has a section for every category of the input, with
\* the first 5 items of the category in it and no other.
C7_FirstFiveRendered ==
    Fallback =>
        \A i \in 1..Len(categorized_news) :
            \E p \in 1..Len(report) :
                Renders(p, i, Min(5, Len(categorized_news[i].news_list)))

\* the fallback report of an input with more than 5 items in a category
C7_Witness ==
    /\ Fallback
    /\ \E i \in 1..Len(categorized_news) : Len(categorized_news[i].news_list) > 5

(***************************************************************************)
(* Properties of fetch_recent_news                                        *)
(* (checked under SpecSort, SpecFilter and SpecFetch)                     *)
(***************************************************************************)
RECURSIVE Number(_, _, _)
\* the number the character codes s[a..b] write in decimal
Number(s, a, b) == IF a > b THEN 0 ELSE Number(s, a, b - 1) * 10 + (s[b] - 48)

\* the moment an ISO 8601 string names, as the seconds into its month and the
\* microseconds
Moment(s) ==
    [year |-> Number(s, 1, 4),
     month |-> Number(s, 6, 7),
     seconds |-> ((Number(s, 9, 10) * 24 + Number(s, 12, 13)) * 60
                  + Number(s, 15, 16)) * 60 + Number(s, 18, 19),
     micros |-> IF Len(s) > 19 THEN Number(s, 21, 26) ELSE 0]

\* moment a is earlier than moment b
Earlier(a, b) ==
    \/ a.year < b.year
    \/ a.year = b.year /\ a.month < b.month
    \/ a.year = b.year /\ a.month = b.month /\ a.seconds < b.seconds
    \/ a.year = b.year /\ a.month = b.month /\ a.seconds = b.seconds
       /\ a.micros < b.micros

MomentOf(d) == Moment(isoformat(d))

\* where the k-th returned item was in the collection (every link is its own)
Place(k) == CHOOSE i \in 1..Len(all_news) : all_news[i] = news_items[k]

\* the item all_news[i] comes before all_news[j] in the stable descending order
Precedes(i, j) ==
    \/ Earlier(Moment(all_news[j].published), Moment(all_news[i].published))
    \/ all_news[i].published = all_news[j].published /\ i < j

\* C4: the returned list is the collected items in the stable order by
\* descending time of publication, cut to its first 50: times never increase
\* along it, it is no longer than 50, and items of equal time keep their order
\* of collection.
C4_StableSortTruncated ==
    pc = "fetched" =>
        /\ Len(news_items) = Min(Len(all_news), 50)
        /\ \A k \in 1..Len(news_items) : \E i \in 1..Len(all_news) :
               all_news[i] = news_items[k]
        /\ \A k \in 1..(Len(news_items) - 1) : Precedes(Place(k), Place(k + 1))
        /\ \A k \in 1..(Len(news_items) - 1) :
               ~Earlier(Moment(news_items[k].published),
                        Moment(news_items[k + 1].published))
        /\ \A i \in 1..Len(all_news) :
               (\A k \in 1..Len(news_items) : Place(k) # i)
                   => Precedes(Place(Len(news_items)), i)

\* more than 50 items were collected out of order, and the returned list holds
\* items of equal time and items of different times
C4_Witness ==
    /\ pc = "fetched"
    /\ Len(all_news) > 50
    /\ Len(news_items) = 50
    /\ \E i \in 1..(Len(all_news) - 1) :
           Earlier(Moment(all_news[i].published), Moment(all_news[i + 1].published))
    /\ news_items[1].published # news_items[50].published
    /\ news_items[2].published = news_items[3].published

\* the one entry the filter is given, the time it resolves to, and whether the
\* entry has the fields an item needs
TheEntry == feeds[1].entries[1]
Resolved == ResolveDate(TheEntry, clock)
WellFormed(entry) == IsSome(entry.title) /\ IsSome(entry.link)
Produced == all_news # <<>>

\* C5 as stated: the entry is accepted exactly when its time is in the window
\* from the cutoff to now (the latest reading of the clock), so no item later
\* than now is produced.
C5_ClosedWindow ==
    (pc = "fetched" /\ IsSome(Resolved) /\ WellFormed(TheEntry)) =>
        (Produced <=>
            /\ ~Earlier(MomentOf(Val(Resolved)), MomentOf(Cutoff(now, hours_back)))
            /\ ~Earlier(MomentOf(clock), MomentOf(Val(Resolved))))

\* C5, amended: the entry is accepted exactly when its time is at or after the
\* cutoff now - hoursBack (the boundary included); there is no upper end, an
\* entry dated later than now is accepted too.
C5_AtOrAfterCutoff ==
    pc = "fetched" =>
        /\ (IsSome(Resolved) /\ WellFormed(TheEntry)) =>
               (Produced <=>
                   ~Earlier(MomentOf(Val(Resolved)), MomentOf(Cutoff(now, hours_back))))
        /\ Produced =>
               /\ IsSome(Resolved)
               /\ WellFormed(TheEntry)
               /\ all_news[1].published = isoformat(Val(Resolved))

\* an entry dated exactly at the cutoff was accepted
C5_Witness ==
    /\ pc = "fetched"
    /\ Produced
    /\ IsSome(TheEntry.published_parsed)
    /\ Val(Resolved) = Cutoff(now, hours_back)

\* the entry k of source i is well formed and in the window
Collectable(i, k) ==
    LET entry == feeds[i].entries[k]
        date == ResolveDate(entry, clock)
    IN  /\ WellFormed(entry)
        /\ IsSome(date)
        /\ ~Earlier(MomentOf(Val(date)), MomentOf(Cutoff(now, hours_back)))

\* the item comes from the entry k of source i
From(item, i, k) ==
    /\ item.source = news_sources[i]
    /\ IsSome(feeds[i].entries[k].link)
    /\ item.link = Val(feeds[i].entries[k].link)

\* C6: whichever sources fail and whichever entries are malformed, the fetch
\* ends without raising, a failed source gives no item, a malformed entry is
\* left out alone, and every well-formed entry in the window of every source
\* that did not fail is collected, once.
C6_FailuresAreIsolated ==
    pc = "fetched" =>
        /\ \A n \in 1..Len(all_news) :
               \E i \in 1..Len(news_sources) :
                   /\ ~feeds[i].raised
                   /\ \E k \in 1..Len(feeds[i].entries) :
                          From(all_news[n], i, k) /\ Collectable(i, k)
        /\ \A i \in 1..Len(news_sources) :
               \A k \in 1..Len(feeds[i].entries) :
                   Collectable(i, k) =>
                       Cardinality({n \in 1..Len(all_news) :
                                        From(all_news[n], i, k)}) = 1

\* the first source failed, and in a later feed a malformed entry is followed
\* by an entry that was collected
C6_Witness ==
    /\ pc = "fetched"
    /\ feeds[1].raised
    /\ \E i \in 2..(Len(news_sources) - 1) :
           /\ Len(feeds[i].entries) = 2
           /\ ~WellFormed(feeds[i].entries[1])
           /\ \E n \in 1..Len(all_news) : From(all_news[n], i, 2)
           /\ \E n \in 1..Len(all_news) : all_news[n].source = news_sources[i + 1]

(***************************************************************************)
(* Properties of main (checked under Spec)                                *)
(***************************************************************************)
Delivery == {"hackmd", "smtp"}

\* C8: a delivery (the POST of the note or the SMTP session) begins only after
\* save_report has written the report, so the whole report is on disk in every
\* run in which a delivery fails.
C8_SavedBeforeDelivery ==
    \A i \in 1..Len(events) :
        events[i] \in Delivery =>
            /\ \E j \in 1..(i - 1) : events[j] = "save"
            /\ file = Some(report)

\* the SMTP session failed with the report on disk
C8_Witness ==
    /\ pc = "done"
    /\ ~success
    /\ \E i \in 1..Len(events) : events[i] = "smtp"
    /\ file = Some(report)

Required ==
    {"GEMINI_API_KEY", "FROM_EMAIL", "TO_EMAIL", "SMTP_SERVER", "EMAIL_USERNAME",
     "EMAIL_PASSWORD"}

\* C9 as stated: when a required variable (the API key, the mail credentials,
\* host or recipients) is unset, the run fails at startup, before any network
\* activity.
C9_AllRequiredFailFast ==
    ((\E v \in Required : ~env[v]) /\ pc # "start") =>
        (pc = "failed" /\ events = <<>>)

\* C9, amended: when the API key is unset the run fails at startup with a
\* configuration error, before any network activity; no other variable is
\* looked at at startup, and an unset recipient list or mail host makes the
\* mail step return failure, after the feeds, the generation and the note
\* upload; the note-hosting token may be unset without a failure.
C9_OnlyApiKeyFailsFast ==
    /\ (~env["GEMINI_API_KEY"] /\ pc # "start") =>
           (pc = "failed" /\ events = <<>> /\ log = {"config_error"})
    /\ "config_error" \in log => ~env["GEMINI_API_KEY"]
    /\ (pc = "failed" /\ env["GEMINI_API_KEY"]) =>
           log \cap {"mkdir_error", "save_error"} # {}
    /\ (pc = "done" /\ IsSome(mail) /\ (~env["TO_EMAIL"] \/ ~env["SMTP_SERVER"])) =>
           /\ ~success
           /\ "warning" \in log
           /\ \E i \in 1..Len(events) : events[i] = "generate"

\* a run without recipients went through the feeds, the generation and the
\* note upload, and ended with the mail step's failure
C9_Witness ==
    /\ pc = "done"
    /\ ~env["TO_EMAIL"]
    /\ env["HACKMD_TOKEN"]
    /\ \E i \in 1..Len(events) : events[i] = "hackmd"
    /\ ~success

\* C10: whatever the note step does (no token, another status than 201, an
\* exception), it returns nothing without raising and the mail is still
\* attempted, with the whole report; whatever fails in the mail step, it
\* returns failure without raising, and main ends with a warning, not a failure.
C10_DeliveryFailuresContained ==
    /\ pc = "failed" => \A i \in 1..Len(events) : events[i] \notin Delivery
    /\ pc = "noted" =>
           /\ ENABLED (SendEmailNoRecipient \/ SendEmailOk \/ SendEmailFails)
           /\ IsSome(hackmd_url) <=> events[Len(events)] = "hackmd" /\ log = {}
    /\ (pc = "done" /\ IsSome(file)) =>
           /\ IsSome(mail)
           /\ Val(mail).report_content = report
           /\ Val(mail).hackmd_url = hackmd_url
           /\ (~IsSome(hackmd_url) /\ IsSome(Val(mail).body)) =>
                  Val(Val(mail).body) = report
           /\ ~success => "warning" \in log

\* the POST of the note raised, the mail with the whole report was attempted
\* and failed, and main ended normally
C10_Witness ==
    /\ pc = "done"
    /\ "hackmd_exception" \in log
    /\ ~success
    /\ Val(mail).body = Some(report)
    /\ "warning" \in log

====
